---- MODULE Spec2Model ----
(***************************************************************************)
(* Model of the order-book matching core of warsawjs-stock-exchange:       *)
(* lib/classes/OfferTable.js (addOffer, _addPurchaseOffer, _addSaleOffer,  *)
(* _findTrades, _performTrade), lib/classes/Trade.js, lib/classes/Offer.js *)
(* and lib/utils/math.js.                                                  *)
(*                                                                         *)
(* Prices and quantities are integers, values that Big#round(2, 1) and     *)
(* Big#round(0, 1) leave as they are.  The `date` of an offer is its       *)
(* submission ordinal.                                                     *)
(*                                                                         *)
(* addOffer is synchronous.  It is cut at the points where the 'trade'     *)
(* observer runs: addOffer(o) is the insertion followed by _findTrades,    *)
(* performTrade is one iteration of the forEach loop (one _performTrade    *)
(* and its emit).  No new addOffer starts while trades are pending, except *)
(* in SpecReentrant, where a 'trade' listener calls addOffer.              *)
(* `emitted` is what a 'trade' listener has received so far; `suspended`   *)
(* holds the addOffer calls that wait for a listener to return.            *)
(***************************************************************************)
EXTENDS Integers, Sequences, FiniteSets, TLC

VARIABLES purchaseOffers, saleOffers, offer, applicableTrades, applied, submitted,
          emitted, suspended

vars == <<purchaseOffers, saleOffers, offer, applicableTrades, applied, submitted,
          emitted, suspended>>

(* ---------------------------- bounds ----------------------------------- *)
MaxOffers == 4
MaxPrice == 3
MaxQuantity == 3

Prices == 1..MaxPrice
Quantities == 1..MaxQuantity
Types == {"purchase", "sale"}

(* ---------------------------- Offer ------------------------------------ *)
\* `new Offer({...})`: remainingQuantity defaults to quantity.
Offer(date, type, price, quantity) ==
  [date |-> date, type |-> type, price |-> price,
   quantity |-> quantity, remainingQuantity |-> quantity]

\* `new Offer(Object.assign({}, o, { remainingQuantity: r }))`
WithRemaining(o, r) == [o EXCEPT !.remainingQuantity = r]

\* The value of `offer` before the first addOffer call.
NoOffer == [date |-> 0, type |-> "none", price |-> 0,
            quantity |-> 0, remainingQuantity |-> 0]

(* ---------------------------- math.js ---------------------------------- *)
minReturnsGreater(a, b) == IF a < b THEN b ELSE a

min(a, b) == IF a < b THEN a ELSE b

(* ---------------------------- Trade ------------------------------------ *)
\* `new Trade({ purchase, sale, quantity, price })`: the offers are copied.
Trade(purchase, sale, quantity, price) ==
  [purchase |-> purchase, sale |-> sale, quantity |-> quantity, price |-> price]

(* ---------------------------- array helpers ---------------------------- *)
\* Array.prototype.findIndex, 1-based and with 0 for -1, under the callback
\* of _addPurchaseOffer: existingOffer.price.lt(offer.price).
RECURSIVE findIndexCheaper(_, _, _)
findIndexCheaper(arr, o, i) ==
  IF i > Len(arr) THEN 0
  ELSE IF arr[i].price < o.price THEN i
  ELSE findIndexCheaper(arr, o, i + 1)

\* The same under the callback of _addSaleOffer:
\* existingOffer.price.gt(offer.price).
RECURSIVE findIndexDearer(_, _, _)
findIndexDearer(arr, o, i) ==
  IF i > Len(arr) THEN 0
  ELSE IF arr[i].price > o.price THEN i
  ELSE findIndexDearer(arr, o, i + 1)

\* arr.splice(index, 0, o) with a 1-based index.
SpliceInsert(arr, index, o) ==
  SubSeq(arr, 1, index - 1) \o <<o>> \o SubSeq(arr, index, Len(arr))

\* arr.splice(0, 1): removes the first element, if any.
SpliceHead(arr) == IF arr = <<>> THEN <<>> ELSE Tail(arr)

\* arr[0] = o
SetHead(arr, o) == IF arr = <<>> THEN <<o>> ELSE [arr EXCEPT ![1] = o]

(* ---------------------------- insertion -------------------------------- *)
addPurchaseOffer(purchases, o) ==
  LET insertionIndex == findIndexCheaper(purchases, o, 1)
  IN IF insertionIndex = 0
       THEN Append(purchases, o)
       ELSE SpliceInsert(purchases, insertionIndex, o)

addSaleOffer(sales, o) ==
  LET insertionIndex == findIndexDearer(sales, o, 1)
  IN IF insertionIndex = 0
       THEN Append(sales, o)
       ELSE SpliceInsert(sales, insertionIndex, o)

(* ---------------------------- _findTrades ------------------------------ *)
saleAcceptableStrict(sale, o) == sale.price < o.price

\* Line 108: this._saleOffers[i].price.lte(offer.price)
saleAcceptable(sale, o) == sale.price <= o.price

purchaseAcceptableStrict(purchase, o) == purchase.price > o.price

purchaseAcceptableAnyPrice(purchase, o) == purchase.price >= 0

\* Line 117: this._purchaseOffers[i].price.gte(offer.price)
purchaseAcceptable(purchase, o) == purchase.price >= o.price

RECURSIVE findPurchaseTrades(_, _, _, _, _)
findPurchaseTrades(o, sales, i, remainingQuantity, trades) ==
  IF i <= Len(sales) /\ saleAcceptable(sales[i], o) /\ remainingQuantity > 0
    THEN LET quantityToTrade == min(remainingQuantity, sales[i].remainingQuantity)
         IN findPurchaseTrades(o, sales, i + 1, remainingQuantity - quantityToTrade,
              Append(trades, Trade(o, sales[i], quantityToTrade, sales[i].price)))
    ELSE trades

RECURSIVE findSaleTradesAtOfferPrice(_, _, _, _, _)
findSaleTradesAtOfferPrice(o, purchases, i, remainingQuantity, trades) ==
  IF i <= Len(purchases) /\ purchaseAcceptable(purchases[i], o) /\ remainingQuantity > 0
    THEN LET quantityToTrade == min(remainingQuantity, purchases[i].remainingQuantity)
         IN findSaleTradesAtOfferPrice(o, purchases, i + 1, remainingQuantity - quantityToTrade,
              Append(trades, Trade(purchases[i], o, quantityToTrade, o.price)))
    ELSE trades

RECURSIVE findSaleTrades(_, _, _, _, _)
findSaleTrades(o, purchases, i, remainingQuantity, trades) ==
  IF i <= Len(purchases) /\ purchaseAcceptable(purchases[i], o) /\ remainingQuantity > 0
    THEN LET quantityToTrade == min(remainingQuantity, purchases[i].remainingQuantity)
         IN findSaleTrades(o, purchases, i + 1, remainingQuantity - quantityToTrade,
              Append(trades, Trade(purchases[i], o, quantityToTrade, purchases[i].price)))
    ELSE trades

findTrades(o, purchases, sales) ==
  IF o.type = "purchase"
    THEN findPurchaseTrades(o, sales, 1, o.remainingQuantity, <<>>)
    ELSE findSaleTrades(o, purchases, 1, o.remainingQuantity, <<>>)

(* ---------------------------- _performTrade ---------------------------- *)
AlwaysReplace(arr, newOffer) == SetHead(arr, newOffer)

\* Lines 143-149 and 154-158: drop the head when the new remaining quantity
\* is zero, otherwise overwrite the head with the new offer.
ReplaceOrRemove(arr, newOffer) ==
  IF newOffer.remainingQuantity = 0
    THEN SpliceHead(arr)
    ELSE SetHead(arr, newOffer)

(* ---------------------------- state machine ---------------------------- *)
Init ==
  /\ purchaseOffers = <<>>
  /\ saleOffers = <<>>
  /\ offer = NoOffer
  /\ applicableTrades = <<>>
  /\ applied = 0
  /\ submitted = <<>>
  /\ emitted = <<>>
  /\ suspended = <<>>

Idle == applied = Len(applicableTrades)

\* The body of addOffer up to and including _findTrades (lines 55-63).
enterAddOffer(o) ==
  /\ LET purchases == IF o.type = "purchase"
                        THEN addPurchaseOffer(purchaseOffers, o)
                        ELSE purchaseOffers
         sales == IF o.type = "purchase"
                    THEN saleOffers
                    ELSE addSaleOffer(saleOffers, o)
     IN /\ purchaseOffers' = purchases
        /\ saleOffers' = sales
        /\ applicableTrades' = findTrades(o, purchases, sales)
  /\ offer' = o
  /\ applied' = 0
  /\ submitted' = Append(submitted, o)
  /\ UNCHANGED emitted

\* addOffer called by a client, while no other call is running.
addOffer(o) ==
  /\ Idle
  /\ suspended = <<>>
  /\ enterAddOffer(o)
  /\ UNCHANGED suspended

\* One iteration of applicableTrades.forEach (lines 65-67, 135-162); the
\* trade is emitted at the end of the step.
performTrade ==
  /\ ~Idle
  /\ LET trade == applicableTrades[applied + 1]
         newPurchase == WithRemaining(trade.purchase,
                          trade.purchase.remainingQuantity - trade.quantity)
         newSale == WithRemaining(trade.sale,
                          trade.sale.remainingQuantity - trade.quantity)
     IN /\ purchaseOffers' = ReplaceOrRemove(purchaseOffers, newPurchase)
        /\ saleOffers' = ReplaceOrRemove(saleOffers, newSale)
  /\ applied' = applied + 1
  /\ emitted' = Append(emitted, applicableTrades[applied + 1])
  /\ UNCHANGED <<offer, applicableTrades, submitted, suspended>>

NewOffers == {Offer(Len(submitted) + 1, t, p, q) : t \in Types, p \in Prices, q \in Quantities}

Submit == Len(submitted) < MaxOffers /\ \E o \in NewOffers : addOffer(o)

Next == Submit \/ performTrade

Spec == Init /\ [][Next]_vars

(* A deeper run over a narrower range of offers. *)
DeepOffers == 6
DeepPrice == 2
DeepQuantity == 2

DeepNewOffers ==
  {Offer(Len(submitted) + 1, t, p, q) :
     t \in Types, p \in 1..DeepPrice, q \in 1..DeepQuantity}

SubmitDeep == Len(submitted) < DeepOffers /\ \E o \in DeepNewOffers : addOffer(o)

NextDeep == SubmitDeep \/ performTrade

SpecDeep == Init /\ [][NextDeep]_vars

(* The offers of the repository's test scripts, submitted in any order. *)
TestScript ==
  << [type |-> "purchase", price |-> 100, quantity |-> 5],
     [type |-> "purchase", price |-> 98, quantity |-> 200],
     [type |-> "sale", price |-> 120, quantity |-> 504],
     [type |-> "sale", price |-> 100, quantity |-> 4],
     [type |-> "sale", price |-> 90, quantity |-> 3] >>

\* sale3 of the script at the end of OfferTable.js asks for 8 units.
TestOffers ==
  {TestScript[i] : i \in DOMAIN TestScript}
    \cup {[type |-> "sale", price |-> 90, quantity |-> 8]}

TestNewOffers ==
  {Offer(Len(submitted) + 1, s.type, s.price, s.quantity) : s \in TestOffers}

SubmitTest ==
  Len(submitted) < Len(TestScript) /\ \E o \in TestNewOffers : addOffer(o)

NextTest == SubmitTest \/ performTrade

SpecTest == Init /\ [][NextTest]_vars

(* addOffer called again by a 'trade' listener.  emit is synchronous       *)
(* (line 161), so the listener runs inside _performTrade, while the outer  *)
(* call still holds the trades it has computed and not yet applied; the    *)
(* inner call runs to its end before the outer forEach goes on.            *)
ReentrantOffers == 4
MaxNesting == 1

\* A listener, handed a trade that is not the last of its call, calls addOffer.
listenerAddOffer(o) ==
  /\ applied > 0
  /\ ~Idle
  /\ Len(suspended) < MaxNesting
  /\ suspended' = Append(suspended,
       [offer |-> offer, applicableTrades |-> applicableTrades, applied |-> applied])
  /\ enterAddOffer(o)

\* The inner addOffer returns; the outer forEach continues with its own trades.
resume ==
  /\ Idle
  /\ suspended /= <<>>
  /\ offer' = suspended[Len(suspended)].offer
  /\ applicableTrades' = suspended[Len(suspended)].applicableTrades
  /\ applied' = suspended[Len(suspended)].applied
  /\ suspended' = SubSeq(suspended, 1, Len(suspended) - 1)
  /\ UNCHANGED <<purchaseOffers, saleOffers, submitted, emitted>>

SubmitReentrant ==
  Len(submitted) < ReentrantOffers /\ \E o \in DeepNewOffers : addOffer(o)

ListenerSubmit ==
  Len(submitted) < ReentrantOffers /\ \E o \in DeepNewOffers : listenerAddOffer(o)

NextReentrant == SubmitReentrant \/ ListenerSubmit \/ performTrade \/ resume

SpecReentrant == Init /\ [][NextReentrant]_vars

(* ---------------------------- vocabulary of the claims ---------------- *)
Called == offer /= NoOffer

\* The call has returned: every computed trade has been applied.
Returned == Called /\ Idle

OwnSide == IF offer.type = "purchase" THEN purchaseOffers ELSE saleOffers

OppositeSide == IF offer.type = "purchase" THEN saleOffers ELSE purchaseOffers

\* The resting participant of a trade of the current call.
Resting(trade) == IF offer.type = "purchase" THEN trade.sale ELSE trade.purchase

\* The incoming participant, as the trade carries it.
Incoming(trade) == IF offer.type = "purchase" THEN trade.purchase ELSE trade.sale

RECURSIVE SumQuantities(_)
SumQuantities(trades) ==
  IF trades = <<>> THEN 0 ELSE Head(trades).quantity + SumQuantities(Tail(trades))

Positions(arr, date) == {i \in DOMAIN arr : arr[i].date = date}

\* The trade that the next performTrade step applies.
PendingTrade == applicableTrades[applied + 1]

(* ---------------------------- C1 ---------------------------------------- *)
PurchasesSorted ==
  \A i, j \in DOMAIN purchaseOffers :
    i < j => \/ purchaseOffers[i].price > purchaseOffers[j].price
             \/ /\ purchaseOffers[i].price = purchaseOffers[j].price
                /\ purchaseOffers[i].date <= purchaseOffers[j].date

SalesSorted ==
  \A i, j \in DOMAIN saleOffers :
    i < j => \/ saleOffers[i].price < saleOffers[j].price
             \/ /\ saleOffers[i].price = saleOffers[j].price
                /\ saleOffers[i].date <= saleOffers[j].date

\* C1: between addOffer calls the purchase sequence is ordered by
\* non-increasing price and the sale sequence by non-decreasing price, and
\* offers of equal price stand in ascending arrival order.
C1_SortInvariant == Idle => (PurchasesSorted /\ SalesSorted)

(* ---------------------------- C2 ---------------------------------------- *)
\* C2: once addOffer has returned, the incoming offer's remaining quantity
\* is its remaining quantity at submission minus the quantities of the
\* trades of the call; it rests on its side exactly once with that remaining
\* quantity when it is positive and is absent from the book when it is zero.
C2_IncomingBookkeeping ==
  Returned =>
    LET left == offer.remainingQuantity - SumQuantities(applicableTrades)
        at == Positions(OwnSide, offer.date)
    IN IF left > 0
         THEN /\ Cardinality(at) = 1
              /\ \A i \in at : OwnSide[i].remainingQuantity = left
         ELSE at = {}

(* ---------------------------- C3 ---------------------------------------- *)
\* a has priority over b on the side of the resting offers of this call.
Outranks(a, b) ==
  \/ IF offer.type = "purchase" THEN a.price < b.price ELSE a.price > b.price
  \/ a.price = b.price /\ a.date < b.date

\* C3: when a trade is about to be applied, its resting offer is in the
\* opposite sequence and no offer of that sequence has a strictly better
\* price, or the same price and an earlier arrival.
C3_PriceTimePriority ==
  (Called /\ ~Idle) =>
    /\ Positions(OppositeSide, Resting(PendingTrade).date) /= {}
    /\ \A i \in DOMAIN OppositeSide :
         ~Outranks(OppositeSide[i], Resting(PendingTrade))

(* ---------------------------- C4 ---------------------------------------- *)
\* The first n offers of the test script, as addOffer receives them.
Script(n) ==
  [i \in 1..n |-> Offer(i, TestScript[i].type, TestScript[i].price, TestScript[i].quantity)]

PricesAndQuantities(trades) ==
  [i \in DOMAIN trades |-> <<trades[i].price, trades[i].quantity>>]

\* C4: in the test script the first three offers emit no trade; Sale(100, 4)
\* emits one trade (100, 4), leaves purchase@100 with 1 and no sale@100;
\* Sale(90, 3) emits (100, 1) then (98, 2) and leaves exactly purchase@98
\* with 198 and sale@120 with 504.
C4_TestScenario ==
  /\ \A n \in 1..3 : submitted = Script(n) => applicableTrades = <<>>
  /\ submitted = Script(4) =>
       PricesAndQuantities(applicableTrades) = << <<100, 4>> >>
  /\ (submitted = Script(4) /\ Idle) =>
       /\ purchaseOffers = << WithRemaining(Script(1)[1], 1), Script(2)[2] >>
       /\ \A i \in DOMAIN saleOffers : saleOffers[i].price /= 100
  /\ submitted = Script(5) =>
       PricesAndQuantities(applicableTrades) = << <<100, 1>>, <<98, 2>> >>
  /\ (submitted = Script(5) /\ Idle) =>
       /\ purchaseOffers = << WithRemaining(Script(2)[2], 198) >>
       /\ saleOffers = << Script(3)[3] >>

(* ---------------------------- C5 ---------------------------------------- *)
\* C5: once addOffer has returned, the trades of the call sum to the
\* incoming offer's submitted remaining quantity, or the opposite sequence
\* is empty, or its head price does not cross the incoming offer's price.
C5_NoCrossPostcondition ==
  Returned =>
    \/ SumQuantities(applicableTrades) = offer.remainingQuantity
    \/ OppositeSide = <<>>
    \/ IF offer.type = "purchase"
         THEN OppositeSide[1].price > offer.price
         ELSE OppositeSide[1].price < offer.price

\* A call that traded, was not fully absorbed, and stopped at a head that
\* does not cross.
C5_Witness ==
  /\ Returned
  /\ applicableTrades /= <<>>
  /\ SumQuantities(applicableTrades) < offer.remainingQuantity
  /\ OppositeSide /= <<>>
  /\ IF offer.type = "purchase"
       THEN OppositeSide[1].price > offer.price
       ELSE OppositeSide[1].price < offer.price

(* ---------------------------- C6 ---------------------------------------- *)
\* C6: every trade of a call carries the price of its resting offer, an
\* offer that stood in the opposite sequence when the call began, and that
\* price is at most the incoming purchase price, at least the incoming
\* sale price.
C6_PriceSelection ==
  Called =>
    /\ \A i \in DOMAIN applicableTrades :
         /\ applicableTrades[i].price = Resting(applicableTrades[i]).price
         /\ Incoming(applicableTrades[i]).date = offer.date
         /\ IF offer.type = "purchase"
              THEN applicableTrades[i].price <= offer.price
              ELSE applicableTrades[i].price >= offer.price
    /\ applied = 0 =>
         /\ Len(applicableTrades) <= Len(OppositeSide)
         /\ \A i \in DOMAIN applicableTrades :
              Resting(applicableTrades[i]) = OppositeSide[i]

\* A trade has been emitted whose price differs from the incoming offer's.
C6_Witness ==
  /\ Called
  /\ applied > 0
  /\ applicableTrades[applied].price /= offer.price
  /\ applicableTrades[applied].price = Resting(applicableTrades[applied]).price

(* ---------------------------- C7 ---------------------------------------- *)
WithinOriginal(arr) ==
  \A i \in DOMAIN arr :
    0 <= arr[i].remainingQuantity /\ arr[i].remainingQuantity <= arr[i].quantity

\* No entry of `after` records more than an entry of `before` for the same offer.
NotIncreased(before, after) ==
  \A i \in DOMAIN before : \A j \in DOMAIN after :
    before[i].date = after[j].date =>
      after[j].remainingQuantity <= before[i].remainingQuantity

\* C7: across the insertion of an offer and across each application of a
\* trade, the remaining quantity the book records for an offer does not
\* grow, and it stays between 0 and the offer's original quantity.
C7_RemainingNeverIncreases ==
  [][/\ NotIncreased(purchaseOffers, purchaseOffers')
     /\ NotIncreased(saleOffers, saleOffers')
     /\ WithinOriginal(purchaseOffers')
     /\ WithinOriginal(saleOffers')]_vars

(* ---------------------------- C8 ---------------------------------------- *)
\* The book holds the offer of this snapshot, with the snapshot's remaining
\* quantity.
StandsInBook(arr, snapshot) ==
  /\ Positions(arr, snapshot.date) /= {}
  /\ \A i \in Positions(arr, snapshot.date) :
       arr[i].remainingQuantity = snapshot.remainingQuantity

\* C8: when a trade is about to be applied, the purchase and the sale it
\* carries have the remaining quantities that the book records for those
\* two offers at that moment.
C8_TradeSnapshots ==
  (Called /\ ~Idle) =>
    /\ StandsInBook(purchaseOffers, PendingTrade.purchase)
    /\ StandsInBook(saleOffers, PendingTrade.sale)

(* ---------------------------- C9 ---------------------------------------- *)
\* C9: no offer of the purchase sequence or of the sale sequence has
\* remaining quantity 0, after each trade application and after each call
\* (every submitted offer has a positive remaining quantity).
C9_ZeroQuantityCleanup ==
  /\ \A i \in DOMAIN purchaseOffers : purchaseOffers[i].remainingQuantity /= 0
  /\ \A i \in DOMAIN saleOffers : saleOffers[i].remainingQuantity /= 0

\* The trade just applied used up its resting offer, which has left the book.
C9_Witness ==
  /\ Called
  /\ applied > 0
  /\ Resting(applicableTrades[applied]).remainingQuantity
       = applicableTrades[applied].quantity
  /\ Positions(OppositeSide, Resting(applicableTrades[applied]).date) = {}

(* ---------------------------- C10 --------------------------------------- *)
\* C10: every trade of a call has a quantity above 0 and at most the
\* remaining quantity of its resting offer, as the opposite sequence held it
\* when the trades were computed, and the quantities of the call sum to at
\* most the incoming offer's remaining quantity at submission.
C10_TradeQuantityBounds ==
  Called =>
    /\ \A i \in DOMAIN applicableTrades :
         /\ applicableTrades[i].quantity > 0
         /\ applicableTrades[i].quantity
              <= Resting(applicableTrades[i]).remainingQuantity
    /\ applied = 0 =>
         \A i \in DOMAIN applicableTrades :
           applicableTrades[i].quantity <= OppositeSide[i].remainingQuantity
    /\ SumQuantities(applicableTrades) <= offer.remainingQuantity

\* A call with two trades, the last one a partial fill of its resting offer.
C10_Witness ==
  /\ Called
  /\ Len(applicableTrades) >= 2
  /\ applicableTrades[Len(applicableTrades)].quantity
       < Resting(applicableTrades[Len(applicableTrades)]).remainingQuantity
  /\ SumQuantities(applicableTrades) = offer.remainingQuantity

(* ---------------------------- C11 --------------------------------------- *)
\* C11: when addOffer has inserted an offer (of positive remaining quantity)
\* whose price equals the price of the head of the non-empty opposite
\* sequence, it has computed at least one trade, and the first one is with
\* that head, at that price.
C11_InclusiveCrossing ==
  (Called /\ applied = 0 /\ OppositeSide /= <<>>
     /\ OppositeSide[1].price = offer.price) =>
    /\ applicableTrades /= <<>>
    /\ Resting(applicableTrades[1]) = OppositeSide[1]
    /\ Incoming(applicableTrades[1]).date = offer.date
    /\ applicableTrades[1].price = offer.price

\* The first trade of a call whose price equalled the opposite head's has
\* been emitted.
C11_Witness ==
  /\ Called
  /\ applied = 1
  /\ applicableTrades[1].price = offer.price
  /\ Resting(applicableTrades[1]).price = offer.price
  /\ emitted /= <<>>
  /\ emitted[Len(emitted)] = applicableTrades[1]

(* ---------------------------- C12 --------------------------------------- *)
\* o is priced at least as well as e, on the side of o.
AtLeastAsGood(e, o) ==
  IF o.type = "purchase" THEN e.price >= o.price ELSE e.price <= o.price

\* after is before with o put in at index k.
InsertedAt(before, after, o, k) ==
  /\ k \in 1..(Len(before) + 1)
  /\ after = SubSeq(before, 1, k - 1) \o <<o>> \o SubSeq(before, k, Len(before))
  /\ \A i \in 1..(k - 1) : AtLeastAsGood(before[i], o)
  /\ \A i \in k..Len(before) : ~AtLeastAsGood(before[i], o)

\* C12: the insertion step of addOffer puts the new offer after every
\* same-side offer priced at least as well and before every same-side offer
\* priced strictly worse, and keeps the order and contents of the others.
C12_InsertionPosition ==
  [][submitted' /= submitted =>
       IF offer'.type = "purchase"
         THEN \E k \in 1..(Len(purchaseOffers) + 1) :
                InsertedAt(purchaseOffers, purchaseOffers', offer', k)
         ELSE \E k \in 1..(Len(saleOffers) + 1) :
                InsertedAt(saleOffers, saleOffers', offer', k)]_vars

(* ---------------------------- C13 --------------------------------------- *)
\* The entries of arr that belong to neither participant of the trade.
Bystanders(arr, trade) ==
  SelectSeq(arr, LAMBDA e : e.date /= trade.purchase.date /\ e.date /= trade.sale.date)

\* C13: when a trade is applied, the incoming offer is the head of its own
\* sequence and the matched resting offer is the head of the opposite
\* sequence, and the step leaves every entry of the book that belongs to
\* neither of them in place, unchanged.
C13_OnlyParticipantsTouched ==
  [][emitted' /= emitted =>
       /\ OwnSide /= <<>>
       /\ OwnSide[1].date = offer.date
       /\ OppositeSide /= <<>>
       /\ OppositeSide[1] = Resting(PendingTrade)
       /\ Bystanders(purchaseOffers', PendingTrade)
            = Bystanders(purchaseOffers, PendingTrade)
       /\ Bystanders(saleOffers', PendingTrade)
            = Bystanders(saleOffers, PendingTrade)]_vars

(* ---------------------------- C14 --------------------------------------- *)
\* after is before with o put in somewhere, nothing else changed.
InsertedSomewhere(before, after, o) ==
  \E k \in 1..(Len(before) + 1) :
    after = SubSeq(before, 1, k - 1) \o <<o>> \o SubSeq(before, k, Len(before))

\* C14: an addOffer call that finds the opposite sequence empty, or its head
\* priced so that it does not cross the incoming offer, computes no trade,
\* leaves the opposite sequence as it was, and changes the incoming offer's
\* own sequence only by inserting the offer as submitted.
C14_NonCrossingIsPureInsertion ==
  [][submitted' /= submitted =>
       IF offer'.type = "purchase"
         THEN (saleOffers = <<>> \/ saleOffers[1].price > offer'.price) =>
                /\ applicableTrades' = <<>>
                /\ saleOffers' = saleOffers
                /\ InsertedSomewhere(purchaseOffers, purchaseOffers', offer')
                /\ offer' = submitted'[Len(submitted')]
         ELSE (purchaseOffers = <<>> \/ purchaseOffers[1].price < offer'.price) =>
                /\ applicableTrades' = <<>>
                /\ purchaseOffers' = purchaseOffers
                /\ InsertedSomewhere(saleOffers, saleOffers', offer')
                /\ offer' = submitted'[Len(submitted')]]_vars

\* A call has returned without a trade, in front of a non-empty opposite
\* sequence whose head does not cross, and its offer rests as submitted.
C14_Witness ==
  /\ Called
  /\ applicableTrades = <<>>
  /\ OppositeSide /= <<>>
  /\ IF offer.type = "purchase"
       THEN OppositeSide[1].price > offer.price
       ELSE OppositeSide[1].price < offer.price
  /\ \E i \in DOMAIN OwnSide : OwnSide[i] = offer
  /\ Len(OwnSide) >= 2

(* ---------------------------- C15 --------------------------------------- *)
\* The trade about to be applied was computed against an offer that is no
\* longer the head of the opposite sequence.
StaleHead ==
  /\ Called
  /\ ~Idle
  /\ (OppositeSide = <<>> \/ OppositeSide[1] /= Resting(PendingTrade))

\* A call entered after the current one has already emitted a trade with the
\* resting offer of the trade about to be applied, and the two trades
\* together exceed the remaining quantity this trade was computed against.
DoubleMatched ==
  /\ Called
  /\ ~Idle
  /\ \E i \in DOMAIN emitted :
       /\ \/ emitted[i].purchase.date > offer.date
          \/ emitted[i].sale.date > offer.date
       /\ Resting(PendingTrade).date
            \in {emitted[i].purchase.date, emitted[i].sale.date}
       /\ emitted[i].quantity + PendingTrade.quantity
            > Resting(PendingTrade).remainingQuantity

\* Another addOffer call has been entered since the current one began.
Interleaved == offer.date < Len(submitted)

\* C15: a trade meets a head other than the offer it was computed against
\* only when another addOffer call ran between _findTrades and that
\* _performTrade; C15_Witness is the execution in which this happens and
\* the resting offer is matched by both calls beyond its remaining quantity.
C15_StaleOnlyWhenInterleaved == StaleHead => Interleaved

C15_Witness == StaleHead /\ DoubleMatched /\ Interleaved

(* ---------------------------- C16 --------------------------------------- *)
\* The quantities of the trades that the offer submitted as number d took
\* part in.
RECURSIVE TradedBy(_, _)
TradedBy(trades, d) ==
  IF trades = <<>> THEN 0
  ELSE (IF d \in {Head(trades).purchase.date, Head(trades).sale.date}
          THEN Head(trades).quantity ELSE 0)
       + TradedBy(Tail(trades), d)

RECURSIVE SumQuantity(_)
SumQuantity(arr) ==
  IF arr = <<>> THEN 0 ELSE Head(arr).quantity + SumQuantity(Tail(arr))

RECURSIVE SumRemaining(_)
SumRemaining(arr) ==
  IF arr = <<>> THEN 0 ELSE Head(arr).remainingQuantity + SumRemaining(Tail(arr))

OfType(arr, type) == SelectSeq(arr, LAMBDA e : e.type = type)

\* C16: no submitted offer has taken part in trades for more than its
\* original quantity, and between calls the quantity traded so far equals
\* what the purchase offers have lost of their quantities (submitted
\* quantities minus the remaining quantities in the purchase sequence), and
\* likewise what the sale offers have lost.
C16_NoOverfill ==
  /\ \A d \in DOMAIN submitted : TradedBy(emitted, d) <= submitted[d].quantity
  /\ Idle =>
       /\ SumQuantities(emitted)
            = SumQuantity(OfType(submitted, "purchase")) - SumRemaining(purchaseOffers)
       /\ SumQuantities(emitted)
            = SumQuantity(OfType(submitted, "sale")) - SumRemaining(saleOffers)

(* ---------------------------- C17 --------------------------------------- *)
\* C17: once addOffer has returned, every resting purchase is priced
\* strictly below every resting sale.
C17_BookNeverCrossed ==
  Returned =>
    \A i \in DOMAIN purchaseOffers : \A j \in DOMAIN saleOffers :
      purchaseOffers[i].price < saleOffers[j].price

(* ---------------------------- C18 --------------------------------------- *)
\* C18: every submitted offer occupies at most one position of the two
\* sequences together, and every entry of a sequence is an offer that was
\* submitted for that side.
C18_RestsAtMostOnce ==
  /\ \A d \in DOMAIN submitted :
       Cardinality(Positions(purchaseOffers, d))
         + Cardinality(Positions(saleOffers, d)) <= 1
  /\ \A i \in DOMAIN purchaseOffers :
       /\ purchaseOffers[i].date \in DOMAIN submitted
       /\ submitted[purchaseOffers[i].date].type = "purchase"
       /\ purchaseOffers[i].type = "purchase"
  /\ \A i \in DOMAIN saleOffers :
       /\ saleOffers[i].date \in DOMAIN submitted
       /\ submitted[saleOffers[i].date].type = "sale"
       /\ saleOffers[i].type = "sale"

(* ---------------------------- C19 --------------------------------------- *)
\* The resting participant of a trade of the call that o began.
RestingOf(o, trade) == IF o.type = "purchase" THEN trade.sale ELSE trade.purchase

\* C19: the resting offers that a call matches are the first offers of the
\* opposite sequence as the call found it, in order, each but the last
\* matched for its whole remaining quantity; each trade application then
\* removes the head of the opposite sequence when the trade uses it up and
\* otherwise leaves it there with its remaining quantity reduced by the
\* trade quantity, and changes nothing behind the head.
C19_RestingSideAccounting ==
  [][/\ submitted' /= submitted =>
          /\ Len(applicableTrades') <= Len(OppositeSide')
          /\ \A i \in DOMAIN applicableTrades' :
               /\ RestingOf(offer', applicableTrades'[i]) = OppositeSide'[i]
               /\ i < Len(applicableTrades') =>
                    applicableTrades'[i].quantity = OppositeSide'[i].remainingQuantity
          /\ OppositeSide' = (IF offer'.type = "purchase" THEN saleOffers ELSE purchaseOffers)
     /\ emitted' /= emitted =>
          /\ OppositeSide /= <<>>
          /\ OppositeSide[1] = Resting(PendingTrade)
          /\ OppositeSide' =
               IF PendingTrade.quantity = OppositeSide[1].remainingQuantity
                 THEN Tail(OppositeSide)
                 ELSE << WithRemaining(OppositeSide[1],
                           OppositeSide[1].remainingQuantity - PendingTrade.quantity) >>
                      \o Tail(OppositeSide)]_vars

\* A call with two trades has returned: its first resting offer is gone, its
\* last one heads the opposite sequence with a reduced remaining quantity,
\* and an unmatched offer stands behind it.
C19_Witness ==
  /\ Returned
  /\ Len(applicableTrades) >= 2
  /\ Len(OppositeSide) >= 2
  /\ Positions(OppositeSide, Resting(applicableTrades[1]).date) = {}
  /\ OppositeSide[1] =
       WithRemaining(Resting(applicableTrades[Len(applicableTrades)]),
         Resting(applicableTrades[Len(applicableTrades)]).remainingQuantity
           - applicableTrades[Len(applicableTrades)].quantity)
  /\ OppositeSide[1].remainingQuantity > 0

====
